---- MODULE Spec2Model ----
(***************************************************************************)
(* Model of src/bot.py: the execution lifecycle client of the Telegram     *)
(* bot (handle_default_route: submit, poll, fetch result), the result      *)
(* extractor, and the handlers that change the process-wide RUNTIME        *)
(* configuration.                                                          *)
(*                                                                         *)
(* Texts are TLA+ strings, handled with Len, \o, SubSeq, Head and Tail.    *)
(* The four non-ASCII characters of the program's messages are written     *)
(* with ASCII stand-ins of the same number of code points:                 *)
(*    U+274C (cross mark)            "X"                                   *)
(*    U+2705 (check mark)            "V"                                   *)
(*    U+26A0 U+FE0F (warning sign)   "!!"                                  *)
(*    U+2026 (ellipsis)              "~"                                   *)
(* Time is counted in whole seconds of the monotonic clock.                *)
(***************************************************************************)
EXTENDS Integers, Sequences, FiniteSets, TLC

(***************************************************************************)
(* Text helpers (Python str methods used by the program).                  *)
(***************************************************************************)

Min(a, b) == IF a <= b THEN a ELSE b

\* s[:n] of Python for n >= 0.
Prefix(s, n) == SubSeq(s, 1, Min(Len(s), n))

\* s[n:] of Python for n >= 0 (n counted from 0).
DropPrefix(s, n) == SubSeq(s, n + 1, Len(s))

\* n copies of s.
RECURSIVE Rep(_, _)
Rep(s, n) ==
    IF n <= 0 THEN ""
    ELSE LET h == Rep(s, n \div 2)
         IN  h \o h \o (IF n % 2 = 1 THEN s ELSE "")

\* sub occurs in s.
Contains(s, sub) ==
    \E i \in 1..(Len(s) - Len(sub) + 1) : SubSeq(s, i, i + Len(sub) - 1) = sub

UpperChars == "ABCDEFGHIJKLMNOPQRSTUVWXYZ"
LowerChars == "abcdefghijklmnopqrstuvwxyz"

\* The lower-case letter of each upper-case letter.
LowerTable ==
    [c \in {SubSeq(UpperChars, i, i) : i \in 1..26} |->
        LET i == CHOOSE i \in 1..26 : SubSeq(UpperChars, i, i) = c
        IN  SubSeq(LowerChars, i, i)]

\* str.lower() on one character.
LowerChar(c) == IF c \in DOMAIN LowerTable THEN LowerTable[c] ELSE c

\* A mutant of Lower: the comparison is case-sensitive.
LowerIdentity(s) == s

\* str.lower().
RECURSIVE Lower(_)
Lower(s) ==
    IF Len(s) = 0 THEN ""
    ELSE IF Len(s) = 1 THEN LowerChar(s)
    ELSE LET m == Len(s) \div 2
         IN  Lower(SubSeq(s, 1, m)) \o Lower(SubSeq(s, m + 1, Len(s)))

IsSpace(c) == c \in {" ", "\n", "\t", "\r"}

RECURSIVE LStrip(_)
LStrip(s) == IF Len(s) > 0 /\ IsSpace(Head(s)) THEN LStrip(Tail(s)) ELSE s

RECURSIVE RStrip(_)
RStrip(s) ==
    IF Len(s) > 0 /\ IsSpace(SubSeq(s, Len(s), Len(s)))
    THEN RStrip(SubSeq(s, 1, Len(s) - 1))
    ELSE s

\* str.strip().
Strip(s) == RStrip(LStrip(s))

\* str.endswith(suffix).
EndsWith(s, suffix) ==
    /\ Len(s) >= Len(suffix)
    /\ SubSeq(s, Len(s) - Len(suffix) + 1, Len(s)) = suffix

(***************************************************************************)
(* JSON values as Python holds them after json.loads.  Every value is a    *)
(* record of one shape: t is the type, s the text of a scalar (a string's   *)
(* characters, a number's or boolean's literal), kv the members of an      *)
(* object as <<key, value>> pairs in insertion order (the items of an      *)
(* array as <<"", item>>).  Python's None is JNull.                        *)
(***************************************************************************)

JNull == [t |-> "null", s |-> "", kv |-> <<>>]
JStr(x) == [t |-> "str", s |-> x, kv |-> <<>>]
JNum(lit) == [t |-> "num", s |-> lit, kv |-> <<>>]
JBool(lit) == [t |-> "bool", s |-> lit, kv |-> <<>>]
JObj(members) == [t |-> "obj", s |-> "", kv |-> members]
JArr(items) == [t |-> "arr", s |-> "", kv |-> [i \in 1..Len(items) |-> <<"", items[i]>>]]

IsStr(v) == v.t = "str"
IsDict(v) == v.t = "obj"

\* Python truthiness: bool(v).
Truthy(v) ==
    CASE v.t = "null" -> FALSE
      [] v.t = "bool" -> v.s = "true"
      [] v.t = "num" -> v.s \notin {"0", "0.0"}
      [] v.t = "str" -> v.s # ""
      [] OTHER -> v.kv # <<>>

HasKey(d, k) == \E i \in 1..Len(d.kv) : d.kv[i][1] = k

\* dict.get(k): the value of key k, None when the key is absent.
Get(d, k) ==
    IF HasKey(d, k)
    THEN d.kv[CHOOSE i \in 1..Len(d.kv) : d.kv[i][1] = k][2]
    ELSE JNull

\* str(v) of a scalar, as an f-string renders it.
PyStr(v) ==
    CASE v.t = "null" -> "None"
      [] v.t = "bool" -> (IF v.s = "true" THEN "True" ELSE "False")
      [] OTHER -> v.s

\* json.dumps escapes of one character.
EscChar(c) ==
    CASE c = "\"" -> "\\\""
      [] c = "\\" -> "\\\\"
      [] c = "\n" -> "\\n"
      [] c = "\t" -> "\\t"
      [] c = "\r" -> "\\r"
      [] OTHER -> c

RECURSIVE Escape(_)
Escape(s) ==
    IF Len(s) = 0 THEN ""
    ELSE IF Len(s) = 1 THEN EscChar(s)
    ELSE LET m == Len(s) \div 2
         IN  Escape(SubSeq(s, 1, m)) \o Escape(SubSeq(s, m + 1, Len(s)))

Indent(level) == Rep("  ", level)

\* json.dumps(v, ensure_ascii=False, indent=2), v nested at depth level.
RECURSIVE JsonDumps(_, _)
RECURSIVE DumpMembers(_, _, _, _)
DumpMembers(kv, i, level, isObj) ==
    IF i > Len(kv) THEN ""
    ELSE Indent(level)
         \o (IF isObj THEN "\"" \o Escape(kv[i][1]) \o "\": " ELSE "")
         \o JsonDumps(kv[i][2], level)
         \o (IF i < Len(kv) THEN ",\n" ELSE "\n")
         \o DumpMembers(kv, i + 1, level, isObj)

JsonDumps(v, level) ==
    CASE v.t = "null" -> "null"
      [] v.t = "str" -> "\"" \o Escape(v.s) \o "\""
      [] v.t = "obj" ->
           IF v.kv = <<>> THEN "{}"
           ELSE "{\n" \o DumpMembers(v.kv, 1, level + 1, TRUE) \o Indent(level) \o "}"
      [] v.t = "arr" ->
           IF v.kv = <<>> THEN "[]"
           ELSE "[\n" \o DumpMembers(v.kv, 1, level + 1, FALSE) \o Indent(level) \o "]"
      [] OTHER -> v.s

CompactLimit == 2000

\* A mutant of _json_compact: the rendering is never cut.
JsonCompactUncut(obj, limit) == JsonDumps(obj, 0)

\* _json_compact(obj, limit).
JsonCompact(obj, limit) ==
    LET s == JsonDumps(obj, 0)
    IN  IF Len(s) <= limit THEN s ELSE Prefix(s, limit) \o " ~"

CandidateKeys == <<"result", "final", "text", "message", "output">>

\* A mutant of ProbeKeys: any string value is taken, empty or not.
RECURSIVE ProbeKeysAnyString(_, _)
ProbeKeysAnyString(fr, i) ==
    IF i > Len(CandidateKeys) THEN JStr(JsonCompact(fr, CompactLimit))
    ELSE LET v == Get(fr, CandidateKeys[i])
         IN  IF IsStr(v) THEN JStr(Strip(v.s))
             ELSE ProbeKeysAnyString(fr, i + 1)

\* The loop of _extract_final_text_from_payload over the candidate keys,
\* from the i-th on: the first stripped non-empty string value, else the
\* compact rendering of fr.
RECURSIVE ProbeKeys(_, _)
ProbeKeys(fr, i) ==
    IF i > Len(CandidateKeys) THEN JStr(JsonCompact(fr, CompactLimit))
    ELSE LET v == Get(fr, CandidateKeys[i])
         IN  IF IsStr(v) /\ Strip(v.s) # "" THEN JStr(Strip(v.s))
             ELSE ProbeKeys(fr, i + 1)

\* A mutant of _extract_final_text_from_payload: a blank string is returned
\* as the empty string instead of None.
ExtractFinalTextBlank(payload) ==
    LET fr == Get(payload, "final_result")
    IN  IF fr = JNull THEN JNull
        ELSE IF IsStr(fr) THEN JStr(Strip(fr.s))
        ELSE IF IsDict(fr) THEN ProbeKeys(fr, 1)
        ELSE JNull

\* _extract_final_text_from_payload(payload) for a dict payload: a string
\* (JStr) or None (JNull).
ExtractFinalText(payload) ==
    LET fr == Get(payload, "final_result")
    IN  IF fr = JNull THEN JNull
        ELSE IF IsStr(fr) THEN (IF Strip(fr.s) # "" THEN JStr(Strip(fr.s)) ELSE JNull)
        ELSE IF IsDict(fr) THEN ProbeKeys(fr, 1)
        ELSE JNull


(***************************************************************************)
(* Configuration, messages and the outcomes of a network call.             *)
(***************************************************************************)

API_URL_DEFAULT == "http://localhost:8000/api/v1/executions"

\* API_URL_DEFAULT.rsplit("/executions", 1)[0]: the default URL ends with
\* "/executions", so the split cuts exactly that suffix.
API_BASE_DEFAULT == SubSeq(API_URL_DEFAULT, 1, Len(API_URL_DEFAULT) - Len("/executions"))

DEFAULT_HEADERS ==
    JObj(<< <<"Content-Type", JStr("application/json")>>,
            <<"Accept", JStr("application/json")>> >>)

MAX_USER_MSG_LEN == 2000
POLL_INTERVAL == 1

\* The wait budget the model is run with, RUNTIME["max_wait"] in seconds.
\* The program sets 120.0; the poll loop reads the value from RUNTIME and
\* compares the elapsed time with it, whatever it is.
MaxWait == 3

UX_timeout == "!! Backend timed out. Try again shortly."
UX_network_err == "X Network error. Backend unreachable."
UX_seturl_usage == "Usage: /seturl http://host:port/api/v1/executions"
UX_setheaders_usage == "Usage: /setheaders {\"Authorization\":\"Bearer ...\"}"
UX_setheaders_err == "X Invalid JSON headers."

\* UX["backend_err"].format(code=code, body=body)
UX_backend_err(code, body) == "X Backend error " \o ToString(code) \o ":\n" \o body

\* UX["success_no_text"].format(body=body)
UX_success_no_text(body) == "V Success, but no simple text field found:\n" \o body

\* UX["trim_warn"].format(n=n)
UX_trim_warn(n) ==
    "Note: your message was long; I sent the first " \o ToString(n) \o " characters."

\* UX["seturl_ok"].format(url=url, base=base)
UX_seturl_ok(url, base) == "V API URL set:\n" \o url \o "\n(base: " \o base \o ")"

\* UX["setheaders_ok"].format(headers=headers)
UX_setheaders_ok(headers) == "V Headers updated:\n" \o headers

\* What resp.json() gives for a body that is not JSON: it raises.
NoJson == [t |-> "nojson", s |-> "", kv |-> <<>>]

\* The outcome of session.get / session.post as its caller sees it: a
\* response (status code, text, and what json() parses the text to), or an
\* exception of class requests.exceptions.Timeout, or one of another
\* subclass of requests.exceptions.RequestException, carrying its str().
Response(code, text, json) ==
    [kind |-> "response", code |-> code, text |-> text, json |-> json, detail |-> ""]
Raises(kind, detail) ==
    [kind |-> kind, code |-> 0, text |-> "", json |-> NoJson, detail |-> detail]

NoOutcome == Raises("none", "")

\* _headers_no_ct(): the configured headers without Content-Type.
HeadersNoCt(headers) ==
    LET keep(m) == Lower(m[1]) # "content-type"
    IN  JObj(SelectSeq(headers.kv, keep))

\* _soft_trim_user_text(s): <<text, warning>>, the warning "" for None.
SoftTrimUserText(s) ==
    IF Len(s) > MAX_USER_MSG_LEN
    THEN <<Prefix(s, MAX_USER_MSG_LEN), UX_trim_warn(MAX_USER_MSG_LEN)>>
    ELSE <<s, "">>

\* The name Python gives the type of a JSON value in an AttributeError.
TypeName(v) ==
    CASE v.t = "null" -> "NoneType"
      [] v.t = "bool" -> "bool"
      [] v.t = "num" -> "int"
      [] v.t = "str" -> "str"
      [] v.t = "arr" -> "list"
      [] OTHER -> "dict"

\* str(e) of the AttributeError raised by v.attr on a value without it.
AttributeError(v, attr) ==
    "'" \o TypeName(v) \o "' object has no attribute '" \o attr \o "'"

\* A mutant of ExceptReturn: the except clauses in the other order, the
\* general RequestException first.
ExceptReturnGeneralFirst(kind, detail) ==
    IF kind \in {"Timeout", "RequestException"}
    THEN UX_network_err \o "\n\nDetails: " \o detail
    ELSE "X Unexpected error: " \o detail

\* The except clauses of handle_default_route: what it returns for an
\* exception of the given class with the given str().
ExceptReturn(kind, detail) ==
    IF kind = "Timeout" THEN UX_timeout
    ELSE IF kind = "RequestException"
    THEN UX_network_err \o "\n\nDetails: " \o detail
    ELSE "X Unexpected error: " \o detail

\* A mutant of Caught: the last except clause is missing.
CaughtRequestsOnly(kind) == kind \in {"Timeout", "RequestException"}

\* The classes of exception the except clauses of handle_default_route
\* catch: Timeout, RequestException and Exception, which every exception
\* raised inside the try block is an instance of.
Caught(kind) == kind \in {"Timeout", "RequestException", "Exception"}

\* Where handle_default_route stands once an exception of class exc ("" for
\* none) was raised in its try block: it has returned, or the exception
\* has left it.
ExitPc(exc) == IF exc = "" \/ Caught(exc) THEN "done" ELSE "raised"

\* A mutant of RaisesForStatus: only server errors raise.
RaisesForStatusServerOnly(code) == 500 <= code /\ code < 600

\* Response.raise_for_status() raises HTTPError for these codes.
RaisesForStatus(code) == 400 <= code /\ code < 600

\* str(e) of that HTTPError (without the reason phrase of the response).
HTTPErrorText(code, url) ==
    ToString(code) \o (IF code < 500 THEN " Client" ELSE " Server")
    \o " Error for url: " \o url

BodyLimit == 2000

\* A mutant of SubmitAccepted: 300 counts as success too.
SubmitAcceptedTo300(code) == 200 <= code /\ code <= 300

\* 200 <= resp.status_code < 300
SubmitAccepted(code) == 200 <= code /\ code < 300

\* A mutant of BackendErrorReturn: the body is not cut.
BackendErrorReturnUncut(code, text) == UX_backend_err(code, text)

\* The return for a rejected submission.
BackendErrorReturn(code, text) == UX_backend_err(code, Prefix(text, BodyLimit))

\* A mutant of terminal: only a completed job ends the polling.
terminalOnlyCompleted == {"completed"}

terminal == {"completed", "failed", "timeout", "timed_out", "cancelled"}

\* A mutant of PollTimeoutReturn: an empty status is not named "unknown".
PollTimeoutReturnAsIs(status) ==
    "!! Backend timed out waiting for result (last status=" \o status \o ")."

\* The timeout return of the poll loop.
PollTimeoutReturn(status) ==
    "!! Backend timed out waiting for result (last status="
    \o (IF status # "" THEN status ELSE "unknown") \o ")."

\* A mutant of LoopDecision: the budget is never tested.
LoopDecisionNoBudget(status, elapsed, budget) ==
    IF status \in terminal THEN "break" ELSE "sleep"

\* A mutant of LoopDecision: the budget test allows one second more.
LoopDecisionLate(status, elapsed, budget) ==
    IF status \in terminal THEN "break"
    ELSE IF elapsed > budget + 1 THEN "timeout"
    ELSE "sleep"

\* The two tests of the poll loop after a status was fetched: "break" to
\* the result fetch, "timeout" to the timeout return, "sleep" to wait and
\* poll again.
LoopDecision(status, elapsed, budget) ==
    IF status \in terminal THEN "break"
    ELSE IF elapsed > budget THEN "timeout"
    ELSE "sleep"


(***************************************************************************)
(* Inputs: what the chat and the backend may send.                         *)
(***************************************************************************)

\* The longest time one network call takes to return or fail, in seconds.
MaxReqDur == 1

Durations == 0..MaxReqDur

\* How a backend serialises a JSON value on the wire (no whitespace).
RECURSIVE WireJson(_)
RECURSIVE WireMembers(_, _, _)
WireMembers(kv, i, isObj) ==
    IF i > Len(kv) THEN ""
    ELSE (IF isObj THEN "\"" \o Escape(kv[i][1]) \o "\":" ELSE "")
         \o WireJson(kv[i][2])
         \o (IF i < Len(kv) THEN "," ELSE "")
         \o WireMembers(kv, i + 1, isObj)

WireJson(v) ==
    CASE v.t = "null" -> "null"
      [] v.t = "str" -> "\"" \o Escape(v.s) \o "\""
      [] v.t = "obj" -> "{" \o WireMembers(v.kv, 1, TRUE) \o "}"
      [] v.t = "arr" -> "[" \o WireMembers(v.kv, 1, FALSE) \o "]"
      [] OTHER -> v.s

\* A response whose body is the JSON value j.
JsonResponse(code, j) == Response(code, WireJson(j), j)

\* A response whose body is text that is not JSON.
TextResponse(code, text) == Response(code, text, NoJson)

Obj1(k, v) == JObj(<< <<k, v>> >>)

\* Texts of update.message.text for handle_text.
Prompts == {"hi", " what is 6 x 7? "}

UserIds == {7}

\* What post_json may give handle_default_route.
SubmitOutcomes ==
    { JsonResponse(202, Obj1("execution_id", JStr("abc"))),
      JsonResponse(200, Obj1("execution_id", JNum("17"))),
      JsonResponse(201, Obj1("execution_id", JStr(""))),
      JsonResponse(200, Obj1("id", JStr("x"))),
      JsonResponse(299, Obj1("detail", JStr(Rep("d", CompactLimit)))),
      JsonResponse(200, JArr(<<JNum("1")>>)),
      TextResponse(200, "OK"),
      TextResponse(204, ""),
      JsonResponse(404, Obj1("detail", JStr("Not Found"))),
      JsonResponse(300, Obj1("execution_id", JStr("abc"))),
      TextResponse(199, Rep("b", BodyLimit)),
      TextResponse(500, Rep("e", BodyLimit + 1)),
      TextResponse(503, ""),
      Raises("Timeout", "Read timed out. (read timeout=15)"),
      Raises("RequestException", "Connection refused") }

\* The status texts a backend may report.
StatusTexts ==
    { "RUNNING", "", "complete",
      "completed", "Completed", "FAILED", "timeout", "timed_out", "cancelled" }

\* What session.get may give _get_status.
StatusOutcomes ==
    { JsonResponse(200, Obj1("status", JStr(t))) : t \in StatusTexts }
    \cup
    { JsonResponse(200, JObj(<<>>)),
      JsonResponse(200, Obj1("status", JNum("5"))),
      JsonResponse(200, JArr(<<>>)),
      TextResponse(200, "<html>"),
      JsonResponse(404, Obj1("detail", JStr("Not Found"))),
      TextResponse(502, "Bad Gateway"),
      Raises("Timeout", "Read timed out. (read timeout=10)"),
      Raises("RequestException", "Connection aborted.") }

\* The result payloads a backend may return.
ResultPayloads ==
    { JObj(<< <<"status", JStr("completed")>>, <<"final_result", JStr("42")>> >>),
      JObj(<< <<"status", JStr("completed")>>, <<"final_result", JStr("  ")>> >>),
      JObj(<< <<"status", JStr("failed")>> >>),
      JObj(<< <<"status", JStr("completed")>>,
              <<"final_result", JObj(<< <<"result", JStr(" x ")>>,
                                        <<"status", JStr("COMPLETED")>> >>)>> >>),
      JObj(<< <<"status", JStr("completed")>>,
              <<"final_result", Obj1("other", JNum("1"))>> >>),
      JObj(<< <<"final_result", JNum("7")>> >>),
      JArr(<<>>) }

\* What session.get may give _get_result.
ResultOutcomes ==
    { JsonResponse(200, p) : p \in ResultPayloads }
    \cup
    { TextResponse(200, ""),
      JsonResponse(500, Obj1("detail", JStr("boom"))),
      Raises("Timeout", "Read timed out. (read timeout=15)"),
      Raises("RequestException", "Connection aborted.") }

\* The class of the exception json() raises for a body that is not JSON:
\* requests.exceptions.JSONDecodeError is a RequestException from requests
\* 2.27 on and a plain ValueError before; the installed version decides.
JsonErrorKinds == {"RequestException", "Exception"}

\* The classes to consider for the outcome o: only a response whose body
\* is not JSON makes json() raise.
JsonErrorKindsFor(o) ==
    IF o.kind = "response" /\ o.json = NoJson THEN JsonErrorKinds
    ELSE {"RequestException"}

JsonErrorText == "Expecting value: line 1 column 1 (char 0)"

\* context.args of a /seturl command.
SetUrlArgs ==
    { <<>>, <<"http://b:9/api/v1/executions">>, <<"http://c:9/run">> }

\* The text after "/setheaders " and what json.loads makes of it.
SetHeadersInputs ==
    { <<"", NoJson>>,
      <<"{\"Authorization\":\"Bearer t\"}", Obj1("Authorization", JStr("Bearer t"))>>,
      <<"[1]", JArr(<<JNum("1")>>)>>,
      <<"{oops", NoJson>> }


(***************************************************************************)
(* State.                                                                  *)
(***************************************************************************)

VARIABLES
    RUNTIME,          \* the process-wide configuration
    pc,               \* where the handler of the current update stands:
                      \* "idle" (no handler runs), "submit", "status",
                      \* "result" (inside that network call), "sleep"
                      \* (inside time.sleep), "done" (handle_default_route
                      \* has returned), "raised" (an exception has left it)
    now,              \* time.monotonic(), counted from the handler's start
    warn,             \* handle_text: the trim warning, "" for None
    execution_id,     \* handle_default_route: execution_id (JNull before)
    t0,               \* handle_default_route: t0
    poll_every,       \* handle_default_route: poll_every
    max_wait,         \* handle_default_route: max_wait
    status,           \* handle_default_route: status
    last_status,      \* handle_default_route: last_status (JNull for None)
    resp,             \* the outcome of the network call that returned last
    ret,              \* what handle_default_route returned
    sent,             \* the distinct requests this invocation has issued
    nSubmit,          \* how many POSTs it has issued
    nStatus,          \* how many status GETs
    nResult,          \* how many result GETs
    served,           \* how many status calls have returned a response
    firstTerminalAt,  \* which of them first named a terminal status (0: none)
    leftLoopAt,       \* the time the poll loop was left (-1: not yet)
    chat,             \* the messages the current or last handler sent
    payload,          \* _extract_final_text_from_payload: its argument
    extracted,        \* what it returned for payload (NotCalled before)
    t_pc,             \* the transport of build_session: "idle", "sending"
                      \* (an attempt is under way), "returned" (a response
                      \* was given to the caller), "raised" (MaxRetryError)
    t_method,         \* the method of the request it is sending
    retry,            \* the Retry object of the request: what is left of
                      \* total, connect and read
    attempts,         \* how many times the request was sent
    t_last            \* how the last attempt ended

handlerVars ==
    <<RUNTIME, pc, now, warn, execution_id, t0, poll_every, max_wait, status,
      last_status, resp, ret, sent, nSubmit, nStatus, nResult, served,
      firstTerminalAt, leftLoopAt, chat>>

extractVars == <<payload, extracted>>

transportVars == <<t_pc, t_method, retry, attempts, t_last>>

vars == <<handlerVars, extractVars, transportVars>>

\* extracted before _extract_final_text_from_payload was called.
NotCalled == [t |-> "notcalled", s |-> "", kv |-> <<>>]

\* No attempt has ended yet.
NoAttempt == [kind |-> "none", code |-> 0, retry_after |-> FALSE]

\* No call of _extract_final_text_from_payload is looked at on its own.
ExtractIdle == payload = JNull /\ extracted = NotCalled

\* The transport is looked at through the outcomes it gives the handlers.
TransportIdle ==
    /\ t_pc = "idle"
    /\ t_method = ""
    /\ retry = [total |-> 0, connect |-> 0, read |-> 0]
    /\ attempts = 0
    /\ t_last = NoAttempt

HandlerInit ==
    /\ RUNTIME = [api_url |-> API_URL_DEFAULT,
                  api_base |-> API_BASE_DEFAULT,
                  headers |-> DEFAULT_HEADERS,
                  poll_interval |-> POLL_INTERVAL,
                  max_wait |-> MaxWait]
    /\ pc = "idle"
    /\ now = 0
    /\ warn = ""
    /\ execution_id = JNull
    /\ t0 = 0
    /\ poll_every = 0
    /\ max_wait = 0
    /\ status = ""
    /\ last_status = JNull
    /\ resp = NoOutcome
    /\ ret = ""
    /\ sent = {}
    /\ nSubmit = 0
    /\ nStatus = 0
    /\ nResult = 0
    /\ served = 0
    /\ firstTerminalAt = 0
    /\ leftLoopAt = -1
    /\ chat = <<>>

Init == HandlerInit /\ ExtractIdle /\ TransportIdle

\* A request as the session is given it, with the configuration it was
\* built from.
Request(method, url, headers, timeout) ==
    [method |-> method, url |-> url, headers |-> headers, timeout |-> timeout,
     cfg |-> [api_url |-> RUNTIME.api_url, api_base |-> RUNTIME.api_base,
              headers |-> RUNTIME.headers]]

\* post_json(body, timeout): the request it issues.
PostJson(timeout) == Request("POST", RUNTIME.api_url, RUNTIME.headers, timeout)

StatusUrl(id) == RUNTIME.api_base \o "/executions/" \o PyStr(id) \o "/status"

ResultUrl(id) == RUNTIME.api_base \o "/executions/" \o PyStr(id)

\* _get_status(execution_id): the request it issues.
GetStatus(id) == Request("GET", StatusUrl(id), HeadersNoCt(RUNTIME.headers), 10)

\* _get_result(execution_id): the request it issues.
GetResult(id) == Request("GET", ResultUrl(id), HeadersNoCt(RUNTIME.headers), 15)

\* A mutant of LoopFree: handlers run while another one is blocked.
LoopFreeAlways == TRUE

\* The event loop can run a handler: handle_text calls handle_default_route
\* synchronously, and its network calls and time.sleep block the one thread
\* that runs all handlers, so no handler starts before the current one ends.
LoopFree == pc = "idle"

\* The upper-case letter of each lower-case letter.
UpperTable ==
    [c \in {SubSeq(LowerChars, i, i) : i \in 1..26} |->
        LET i == CHOOSE i \in 1..26 : SubSeq(LowerChars, i, i) = c
        IN  SubSeq(UpperChars, i, i)]

RECURSIVE Upper(_)
Upper(s) ==
    IF Len(s) = 0 THEN ""
    ELSE (IF Head(s) \in DOMAIN UpperTable THEN UpperTable[Head(s)] ELSE Head(s))
         \o Upper(Tail(s))

\* The backend's answer o names a terminal status, whatever the case.
NamesTerminal(o) ==
    /\ o.kind = "response"
    /\ o.code < 400
    /\ o.json.t = "obj"
    /\ Get(o.json, "status").t = "str"
    /\ Upper(Get(o.json, "status").s)
         \in {"COMPLETED", "FAILED", "TIMEOUT", "TIMED_OUT", "CANCELLED"}


(***************************************************************************)
(* handle_default_route, a step for each network call and each sleep.      *)
(***************************************************************************)

\* A mutant of MonotonicT0: the clock is read before post_json is called.
MonotonicT0BeforePost(sentAt, returnedAt) == sentAt

\* t0 = time.monotonic() of line 172, for a submission sent at sentAt and
\* returned at returnedAt: the statement runs after post_json has returned.
MonotonicT0(sentAt, returnedAt) == returnedAt

\* Lines 157-168, once post_json has given o: the text to return, or the
\* execution_id to poll with.
AfterSubmit(o) ==
    IF o.kind # "response"
    THEN [return |-> TRUE, ret |-> ExceptReturn(o.kind, o.detail), id |-> JNull,
          exc |-> o.kind]
    ELSE IF ~SubmitAccepted(o.code)
    THEN [return |-> TRUE, ret |-> BackendErrorReturn(o.code, o.text), id |-> JNull,
          exc |-> ""]
    ELSE LET j == IF o.json = NoJson THEN JObj(<<>>) ELSE o.json
         IN  IF ~IsDict(j)
             THEN [return |-> TRUE,
                   ret |-> ExceptReturn("Exception", AttributeError(j, "get")),
                   id |-> JNull, exc |-> "Exception"]
             ELSE IF ~Truthy(Get(j, "execution_id"))
             THEN [return |-> TRUE,
                   ret |-> UX_success_no_text(
                              "(no execution_id)\n" \o JsonCompact(j, CompactLimit)),
                   id |-> JNull, exc |-> ""]
             ELSE [return |-> FALSE, ret |-> "", id |-> Get(j, "execution_id"),
                   exc |-> ""]

\* _get_status and _get_result, once session.get has given o for the
\* request to url: raise_for_status(), then json(). The payload returned,
\* or the exception raised (jsonErr is the class of the error json()
\* raises).
GetJsonReturn(o, url, jsonErr) ==
    IF o.kind # "response"
    THEN [raised |-> TRUE, kind |-> o.kind, detail |-> o.detail, payload |-> JNull]
    ELSE IF RaisesForStatus(o.code)
    THEN [raised |-> TRUE, kind |-> "RequestException",
          detail |-> HTTPErrorText(o.code, url), payload |-> JNull]
    ELSE IF o.json = NoJson
    THEN [raised |-> TRUE, kind |-> jsonErr, detail |-> JsonErrorText, payload |-> JNull]
    ELSE [raised |-> FALSE, kind |-> "", detail |-> "", payload |-> o.json]

\* Lines 179-190, once _get_status has returned or raised g: the next
\* step ("return", "break" or "sleep"), the text to return, whether line
\* 180 gave a status, and that status.
AfterStatus(g, elapsed, budget) ==
    IF g.raised
    THEN [next |-> "return", ret |-> ExceptReturn(g.kind, g.detail),
          observed |-> FALSE, status |-> "", exc |-> g.kind]
    ELSE IF ~IsDict(g.payload)
    THEN [next |-> "return",
          ret |-> ExceptReturn("Exception", AttributeError(g.payload, "get")),
          observed |-> FALSE, status |-> "", exc |-> "Exception"]
    ELSE LET sv == Get(g.payload, "status")
             x == IF Truthy(sv) THEN sv ELSE JStr("")
         IN  IF ~IsStr(x)
             THEN [next |-> "return",
                   ret |-> ExceptReturn("Exception", AttributeError(x, "lower")),
                   observed |-> FALSE, status |-> "", exc |-> "Exception"]
             ELSE LET st == Lower(x.s)
                      decision == LoopDecision(st, elapsed, budget)
                  IN  [next |-> IF decision = "timeout" THEN "return" ELSE decision,
                       ret |-> IF decision = "timeout" THEN PollTimeoutReturn(st)
                               ELSE "",
                       observed |-> TRUE, status |-> st, exc |-> ""]

\* Lines 192-198, once _get_result has returned or raised g: the text to
\* return, and the class of the exception raised on the way ("" for none).
AfterResult(g) ==
    IF g.raised THEN [ret |-> ExceptReturn(g.kind, g.detail), exc |-> g.kind]
    ELSE IF ~IsDict(g.payload)
    THEN [ret |-> ExceptReturn("Exception", AttributeError(g.payload, "get")),
          exc |-> "Exception"]
    ELSE LET text == ExtractFinalText(g.payload)
         IN  [ret |-> IF Truthy(text) THEN text.s
                      ELSE UX_success_no_text(
                               JsonCompact(
                                   JObj(<< <<"status", Get(g.payload, "status")>>,
                                           <<"final_result",
                                             Get(g.payload, "final_result")>> >>),
                                   CompactLimit)),
              exc |-> ""]

\* handle_text up to the submission: a text message arrives, is stripped
\* and trimmed, and handle_default_route posts the job.
HandleText(text, user_id) ==
    /\ LoopFree
    /\ pc' = "submit"
    /\ now' = 0
    /\ warn' = SoftTrimUserText(Strip(text))[2]
    /\ sent' = {PostJson(15)}
    /\ nSubmit' = 1
    /\ chat' = <<>>
    /\ UNCHANGED <<RUNTIME, execution_id, t0, poll_every, max_wait, status,
                   last_status, resp, ret, nStatus, nResult, served,
                   firstTerminalAt, leftLoopAt>>
    /\ UNCHANGED <<extractVars, transportVars>>

\* post_json returns or raises after d seconds; on success the poll loop
\* is entered and the first status request issued.
SubmitReturns(o, d) ==
    /\ pc = "submit"
    /\ now' = now + d
    /\ resp' = o
    /\ LET a == AfterSubmit(o)
       IN  IF a.return
           THEN /\ pc' = ExitPc(a.exc)
                /\ ret' = IF pc' = "done" THEN a.ret ELSE ret
                /\ UNCHANGED <<execution_id, t0, poll_every, max_wait, sent, nStatus>>
           ELSE /\ execution_id' = a.id
                /\ t0' = MonotonicT0(now, now')
                /\ poll_every' = RUNTIME.poll_interval
                /\ max_wait' = RUNTIME.max_wait
                /\ sent' = sent \cup {GetStatus(a.id)}
                /\ nStatus' = nStatus + 1
                /\ pc' = "status"
                /\ UNCHANGED ret
    /\ UNCHANGED <<RUNTIME, warn, status, last_status, nSubmit, nResult, served,
                   firstTerminalAt, leftLoopAt, chat>>
    /\ UNCHANGED <<extractVars, transportVars>>

\* _get_status returns or raises after d seconds; the loop breaks to the
\* result request, returns, or goes to sleep.
StatusReturns(o, d, jsonErr) ==
    /\ pc = "status"
    /\ now' = now + d
    /\ resp' = o
    /\ served' = IF o.kind = "response" THEN served + 1 ELSE served
    /\ firstTerminalAt' =
           IF firstTerminalAt = 0 /\ NamesTerminal(o) THEN served' ELSE firstTerminalAt
    /\ LET g == GetJsonReturn(o, StatusUrl(execution_id), jsonErr)
           a == AfterStatus(g, now' - t0, max_wait)
       IN  /\ status' = IF a.observed THEN a.status ELSE status
           /\ last_status' =
                  IF a.observed /\ JStr(a.status) # last_status
                  THEN JStr(a.status)
                  ELSE last_status
           /\ CASE a.next = "return" ->
                     /\ pc' = ExitPc(a.exc)
                     /\ ret' = IF pc' = "done" THEN a.ret ELSE ret
                     /\ leftLoopAt' = now'
                     /\ UNCHANGED <<sent, nResult>>
                [] a.next = "break" ->
                     /\ sent' = sent \cup {GetResult(execution_id)}
                     /\ nResult' = nResult + 1
                     /\ pc' = "result"
                     /\ leftLoopAt' = now'
                     /\ UNCHANGED ret
                [] OTHER ->
                     /\ pc' = "sleep"
                     /\ UNCHANGED <<ret, sent, nResult, leftLoopAt>>
    /\ UNCHANGED <<RUNTIME, warn, execution_id, t0, poll_every, max_wait, nSubmit,
                   nStatus, chat>>
    /\ UNCHANGED <<extractVars, transportVars>>


\* No invocation issues this many status requests: a round of the loop
\* takes poll_interval, a second, or more, and the budget test ends the
\* loop after the request that returns later than max_wait after t0.
MaxPolls == MaxWait + 3

\* time.sleep(poll_every) ends and the loop issues the next status request.
Sleep ==
    /\ pc = "sleep"
    /\ nStatus < MaxPolls
    /\ now' = now + poll_every
    /\ sent' = sent \cup {GetStatus(execution_id)}
    /\ nStatus' = nStatus + 1
    /\ pc' = "status"
    /\ UNCHANGED <<RUNTIME, warn, execution_id, t0, poll_every, max_wait, status,
                   last_status, resp, ret, nSubmit, nResult, served,
                   firstTerminalAt, leftLoopAt, chat>>
    /\ UNCHANGED <<extractVars, transportVars>>

\* _get_result returns or raises after d seconds; handle_default_route
\* returns.
ResultReturns(o, d, jsonErr) ==
    /\ pc = "result"
    /\ now' = now + d
    /\ resp' = o
    /\ LET a == AfterResult(GetJsonReturn(o, ResultUrl(execution_id), jsonErr))
       IN  /\ pc' = ExitPc(a.exc)
           /\ ret' = IF pc' = "done" THEN a.ret ELSE ret
    /\ UNCHANGED <<RUNTIME, warn, execution_id, t0, poll_every, max_wait, status,
                   last_status, sent, nSubmit, nStatus, nResult, served,
                   firstTerminalAt, leftLoopAt, chat>>
    /\ UNCHANGED <<extractVars, transportVars>>

ReplyLimit == 4000

\* handle_text after handle_default_route has returned: the reply is cut
\* and sent after the trim warning, and the handler ends; its locals and
\* those of handle_default_route are gone.
Reply ==
    /\ pc = "done"
    /\ chat' = (IF warn # "" THEN <<warn>> ELSE <<>>)
               \o <<IF Len(ret) > ReplyLimit THEN Prefix(ret, ReplyLimit) \o " ~"
                    ELSE ret>>
    /\ pc' = "idle"
    /\ now' = 0
    /\ warn' = ""
    /\ execution_id' = JNull
    /\ t0' = 0
    /\ poll_every' = 0
    /\ max_wait' = 0
    /\ status' = ""
    /\ last_status' = JNull
    /\ resp' = NoOutcome
    /\ ret' = ""
    /\ sent' = {}
    /\ nSubmit' = 0
    /\ nStatus' = 0
    /\ nResult' = 0
    /\ served' = 0
    /\ firstTerminalAt' = 0
    /\ leftLoopAt' = -1
    /\ UNCHANGED RUNTIME
    /\ UNCHANGED <<extractVars, transportVars>>

\* " ".join(args)
RECURSIVE JoinArgs(_)
JoinArgs(args) ==
    IF Len(args) = 0 THEN ""
    ELSE IF Len(args) = 1 THEN args[1]
    ELSE args[1] \o " " \o JoinArgs(Tail(args))

\* A mutant of SetUrlBase: the slash of the suffix is left on the base.
SetUrlBaseKeepsSlash(url) ==
    IF EndsWith(url, "/executions")
    THEN SubSeq(url, 1, Len(url) - Len("executions"))
    ELSE url

\* The base seturl derives from the url.
SetUrlBase(url) ==
    IF EndsWith(url, "/executions")
    THEN SubSeq(url, 1, Len(url) - Len("/executions"))
    ELSE url

\* seturl: the /seturl command.
SetUrl(args) ==
    /\ LoopFree
    /\ IF Len(args) = 0
       THEN /\ chat' = <<UX_seturl_usage>>
            /\ UNCHANGED RUNTIME
       ELSE LET url == Strip(JoinArgs(args))
                base == SetUrlBase(url)
            IN  /\ RUNTIME' = [RUNTIME EXCEPT !.api_url = url, !.api_base = base]
                /\ chat' = <<UX_seturl_ok(url, base)>>
    /\ UNCHANGED <<pc, now, warn, execution_id, t0, poll_every, max_wait, status,
                   last_status, resp, ret, sent, nSubmit, nStatus, nResult, served,
                   firstTerminalAt, leftLoopAt>>
    /\ UNCHANGED <<extractVars, transportVars>>

\* setheaders: the /setheaders command; raw is the text after the command
\* and parsed what json.loads makes of it (NoJson: it raises).
SetHeaders(raw, parsed) ==
    /\ LoopFree
    /\ IF Strip(raw) = ""
       THEN /\ chat' = <<UX_setheaders_usage>>
            /\ UNCHANGED RUNTIME
       ELSE IF parsed = NoJson \/ ~IsDict(parsed)
       THEN /\ chat' = <<UX_setheaders_err>>
            /\ UNCHANGED RUNTIME
       ELSE /\ RUNTIME' = [RUNTIME EXCEPT !.headers = parsed]
            /\ chat' = <<UX_setheaders_ok(JsonDumps(parsed, 0))>>
    /\ UNCHANGED <<pc, now, warn, execution_id, t0, poll_every, max_wait, status,
                   last_status, resp, ret, sent, nSubmit, nStatus, nResult, served,
                   firstTerminalAt, leftLoopAt>>
    /\ UNCHANGED <<extractVars, transportVars>>

Next ==
    \/ \E text \in Prompts, user_id \in UserIds : HandleText(text, user_id)
    \/ \E o \in SubmitOutcomes, d \in Durations : SubmitReturns(o, d)
    \/ \E o \in StatusOutcomes, d \in Durations, e \in JsonErrorKinds :
           e \in JsonErrorKindsFor(o) /\ StatusReturns(o, d, e)
    \/ Sleep
    \/ \E o \in ResultOutcomes, d \in Durations, e \in JsonErrorKinds :
           e \in JsonErrorKindsFor(o) /\ ResultReturns(o, d, e)
    \/ Reply
    \/ \E args \in SetUrlArgs : SetUrl(args)
    \/ \E h \in SetHeadersInputs : SetHeaders(h[1], h[2])

Spec == Init /\ [][Next]_vars


(***************************************************************************)
(* The claims.                                                             *)
(***************************************************************************)

\* resp is the answer to the submission: handle_default_route has returned
\* on it, or has issued the first status request and nothing came back yet.
SubmissionAnswered ==
    /\ resp.kind = "response"
    /\ \/ pc = "done" /\ nStatus = 0
       \/ pc = "status" /\ nStatus = 1

\* resp is the outcome of the status request that returned last, and no
\* result request has returned since.
StatusAnswered ==
    \/ pc \in {"sleep", "result"}
    \/ pc = "done" /\ nStatus > 0 /\ nResult = 0

\* C1: a submission answered with a status code outside 200..299 makes
\* handle_default_route return, without any further request, the
\* backend-error text: the code in decimal, then the first 2000 characters
\* of the response body (the whole body when it is shorter).
C1_RejectedSubmission ==
    (SubmissionAnswered /\ resp.code \notin 200..299) =>
        LET head == "X Backend error " \o ToString(resp.code) \o ":\n"
            tail == DropPrefix(ret, Len(head))
        IN  /\ pc = "done"
            /\ Prefix(ret, Len(head)) = head
            /\ Len(tail) <= 2000
            /\ Len(tail) = Min(Len(resp.text), 2000)
            /\ tail = Prefix(resp.text, Len(tail))
            /\ nStatus = 0 /\ nResult = 0

\* C1 witness: a 500 answer with a body of 2001 characters was cut to 2000.
C1_Witness ==
    /\ pc = "done"
    /\ nStatus = 0
    /\ resp.kind = "response"
    /\ resp.code = 500
    /\ Len(resp.text) = 2001
    /\ Len(ret) = Len("X Backend error 500:\n") + 2000

\* C2: after a status request has returned, the loop has gone on to the
\* result request exactly when the answer names, in any case of letters,
\* one of completed, failed, timeout, timed_out, cancelled.
C2_ResultFetchIffTerminal ==
    /\ StatusAnswered => (pc = "result" <=> NamesTerminal(resp))
    /\ StatusAnswered => (nResult = 1 <=> NamesTerminal(resp))
    /\ nResult <= 1

\* C2 witness: "Completed", not in lower case, led to the result request.
C2_Witness ==
    /\ pc = "result"
    /\ Get(resp.json, "status") = JStr("Completed")

\* C2 witness of the other side: a near miss ("complete") and a missing
\* status went to sleep.
C2_WitnessSleep ==
    /\ pc = "sleep"
    /\ resp.json = JObj(<<>>)

\* The text of a poll-timeout return that names the status of the answer
\* o: its letters in lower case, "unknown" for a missing or empty status.
NamesStatusOf(text, o) ==
    LET head == "!! Backend timed out waiting for result (last status="
        raw == IF Truthy(Get(o.json, "status")) THEN Get(o.json, "status").s ELSE ""
        named == SubSeq(text, Len(head) + 1, Len(text) - 2)
    IN  /\ Prefix(text, Len(head)) = head
        /\ DropPrefix(text, Len(text) - 2) = ")."
        /\ IF raw = "" THEN named = "unknown"
           ELSE /\ Upper(named) = Upper(raw)
                /\ \A i \in 1..Len(named) : SubSeq(named, i, i) \notin DOMAIN LowerTable

\* C3 as claimed: whenever the poll loop is left with the budget exceeded
\* and no terminal status observed, the return is the poll-timeout text.
C3_AsClaimed ==
    (pc = "done" /\ nStatus > 0 /\ nResult = 0 /\ firstTerminalAt = 0
        /\ leftLoopAt - t0 > max_wait)
    => Prefix(ret, Len("!! Backend timed out waiting for result"))
         = "!! Backend timed out waiting for result"

\* C3 as amended: a status request that returns a non-terminal status (a
\* string, or a missing or falsy one) ends the invocation exactly when the
\* time elapsed since t0 then exceeds max_wait, and the return is then the
\* poll-timeout text naming that status in lower case, or "unknown" when
\* it is missing or empty.
C3_PollTimeout ==
    (StatusAnswered /\ resp.kind = "response" /\ resp.code < 400
        /\ IsDict(resp.json)
        /\ (IsStr(Get(resp.json, "status")) \/ ~Truthy(Get(resp.json, "status")))
        /\ ~NamesTerminal(resp))
    => /\ pc = "done" <=> now - t0 > max_wait
       /\ pc = "sleep" <=> now - t0 <= max_wait
       /\ pc = "done" => NamesStatusOf(ret, resp)
       /\ pc = "done" => last_status = JStr(status)

\* C3 witness: the budget ran out on "RUNNING" after an earlier poll, and
\* the text names "running".
C3_Witness ==
    /\ pc = "done"
    /\ nStatus > 1
    /\ Get(resp.json, "status") = JStr("RUNNING")
    /\ now - t0 > max_wait
    /\ ret = "!! Backend timed out waiting for result (last status=running)."


\* C4 as claimed: the poll loop is left no later than max_wait plus one
\* polling interval after t0.
C4_AsClaimed ==
    leftLoopAt # -1 => leftLoopAt - t0 <= max_wait + poll_every

\* C4 as amended: the poll loop is left no later than max_wait plus one
\* polling interval plus the time the last status request took, a sleep
\* lasting one polling interval; and while the loop runs, the time elapsed
\* at the start of each status request is at most max_wait plus one
\* polling interval.
C4_LoopLeftInTime ==
    /\ leftLoopAt # -1 => leftLoopAt - t0 <= max_wait + poll_every + MaxReqDur
    /\ pc = "status" => now - t0 <= max_wait + poll_every
    /\ pc = "sleep" => now - t0 <= max_wait

\* C4 witness: the loop was left on a terminal status at the latest time
\* the amended bound allows.
C4_Witness ==
    /\ pc = "result"
    /\ NamesTerminal(resp)
    /\ leftLoopAt - t0 = max_wait + poll_every + MaxReqDur

\* The text the extractor is to find in the result payload p, for the
\* payloads that hold one.
ExpectedText(p) ==
    CASE Get(p, "final_result") = JStr("42") -> "42"
      [] Get(p, "final_result")
           = JObj(<< <<"result", JStr(" x ")>>, <<"status", JStr("COMPLETED")>> >>) -> "x"
      [] OTHER -> ""

\* C5: when the result request is issued, exactly as many status requests
\* were issued as it took answers to see the first terminal status, one
\* submission and one result request; and when the result request returns
\* a payload, the return is the text extracted from it.
C5_PollsThenOneResultFetch ==
    /\ nResult = 1 =>
           /\ firstTerminalAt > 0
           /\ nStatus = firstTerminalAt
           /\ served = firstTerminalAt
           /\ nSubmit = 1
    /\ (pc = "done" /\ nResult = 1 /\ resp.kind = "response" /\ IsDict(resp.json)) =>
           /\ ExpectedText(resp.json) # "" => ret = ExpectedText(resp.json)
           /\ Truthy(ExtractFinalText(resp.json)) => ret = ExtractFinalText(resp.json).s

\* C5 witness: running, completed, final_result "42" gave "42" after two
\* status requests and one result request.
C5_Witness ==
    /\ pc = "done"
    /\ execution_id = JStr("abc")
    /\ nSubmit = 1 /\ nStatus = 2 /\ nResult = 1
    /\ firstTerminalAt = 2
    /\ status = "completed"
    /\ Get(resp.json, "final_result") = JStr("42")
    /\ ret = "42"

\* C6: all the requests of one invocation were built from one and the
\* same RUNTIME endpoint and headers, the ones RUNTIME still holds.
C6_OneConfigurationPerInvocation ==
    \A r \in sent :
        /\ r.cfg = [api_url |-> RUNTIME.api_url, api_base |-> RUNTIME.api_base,
                    headers |-> RUNTIME.headers]
        /\ r.method = "POST" => r.url = r.cfg.api_url /\ r.headers = r.cfg.headers
        /\ r.method = "GET" =>
               /\ Prefix(r.url, Len(r.cfg.api_base)) = r.cfg.api_base
               /\ r.headers = HeadersNoCt(r.cfg.headers)

\* C6 witness: an invocation that runs after /seturl and /setheaders have
\* changed the configuration has issued its three kinds of request.
C6_Witness ==
    /\ pc = "result"
    /\ Cardinality(sent) = 3
    /\ RUNTIME.api_url = "http://c:9/run"
    /\ RUNTIME.headers # DEFAULT_HEADERS

\* A request of another user or a command is handled.
OtherRequest ==
    \/ \E text \in Prompts, user_id \in UserIds : HandleText(text, user_id)
    \/ \E args \in SetUrlArgs : SetUrl(args)
    \/ \E h \in SetHeadersInputs : SetHeaders(h[1], h[2])

\* C7 as claimed: while an invocation waits between two polls, another
\* request can be handled.
C7_WaitDoesNotBlock ==
    pc = "sleep" => ENABLED OtherRequest

\* C8 as claimed: a submission answered 2xx without a usable execution_id
\* returns the success-but-unusable text, and the text holds the raw
\* response body.
C8_AsClaimed ==
    (SubmissionAnswered /\ resp.code \in 200..299 /\ pc = "done") =>
        /\ Prefix(ret, Len("V Success, but no simple text field found:\n"))
             = "V Success, but no simple text field found:\n"
        /\ Contains(ret, resp.text)

\* C8 as amended: a submission answered 2xx whose body is a JSON object
\* without a truthy execution_id, or is not JSON, returns the
\* success-but-unusable text, "(no execution_id)" and the indent-2
\* rendering of the parsed object cut to 2000 characters and marked, "{}"
\* for a body that is not JSON; a 2xx body that is JSON but no object
\* returns the unexpected-error text.
C8_NoExecutionId ==
    (SubmissionAnswered /\ resp.code \in 200..299) =>
        LET head == "V Success, but no simple text field found:\n(no execution_id)\n"
            full == IF resp.json = NoJson THEN "{}" ELSE JsonDumps(resp.json, 0)
            shown == IF Len(full) <= 2000 THEN full ELSE SubSeq(full, 1, 2000) \o " ~"
        IN  /\ (resp.json = NoJson
                  \/ (resp.json.t = "obj" /\ ~Truthy(Get(resp.json, "execution_id"))))
               => (pc = "done" /\ ret = head \o shown /\ nStatus = 0)
            /\ (resp.json # NoJson /\ resp.json.t # "obj")
               => (pc = "done" /\ nStatus = 0
                   /\ Prefix(ret, Len("X Unexpected error: ")) = "X Unexpected error: ")
            /\ (resp.json.t = "obj" /\ Truthy(Get(resp.json, "execution_id")))
               => pc = "status"

\* C8 witness: the rendering of a body without execution_id was cut.
C8_Witness ==
    /\ pc = "done"
    /\ nStatus = 0
    /\ resp.kind = "response"
    /\ resp.code = 299
    /\ Len(ret)
         = Len("V Success, but no simple text field found:\n(no execution_id)\n") + 2002

\* C8 witness: a body that is not JSON is shown as "{}".
C8_WitnessNotJson ==
    /\ pc = "done"
    /\ resp.kind = "response"
    /\ resp.text = "OK"
    /\ ret = "V Success, but no simple text field found:\n(no execution_id)\n{}"

C9_WitnessSubmit == pc = "done" /\ resp.kind = "Timeout" /\ nStatus = 0

C9_WitnessResult == pc = "done" /\ resp.kind = "Timeout" /\ nResult = 1

\* C10: a call that raises another RequestException, in any of the three
\* steps, or a status or result request answered with an HTTP error
\* status, makes handle_default_route return the fixed unreachable text
\* followed by the error's detail.
C10_NetworkErrorReturn ==
    LET head == "X Network error. Backend unreachable.\n\nDetails: "
    IN  /\ (pc = "done" /\ resp.kind = "RequestException") =>
               ret = head \o resp.detail
        /\ (pc = "done" /\ nStatus > 0 /\ resp.kind = "response"
               /\ resp.code \in 400..599) =>
               /\ Prefix(ret, Len(head)) = head
               /\ Contains(DropPrefix(ret, Len(head)), ToString(resp.code))
               /\ Contains(DropPrefix(ret, Len(head)), execution_id.s)

\* C10 witness: a status request answered 404.
C10_Witness ==
    /\ pc = "done"
    /\ nStatus > 0
    /\ nResult = 0
    /\ resp.kind = "response"
    /\ resp.code = 404

\* C10 witnesses: a connection failure of the submission, and a result
\* request answered 500.
C10_WitnessSubmit == pc = "done" /\ resp.kind = "RequestException" /\ nStatus = 0

C10_WitnessResult == pc = "done" /\ nResult = 1 /\ resp.kind = "response" /\ resp.code = 500

\* C11: every invocation of handle_default_route ends by returning a
\* display string: no exception leaves it, whatever failed (rejected or
\* malformed submission, poll timeout, network timeout, network error,
\* unexpected exception), and what it returns is never empty.
C11_AlwaysReturnsString ==
    /\ pc # "raised"
    /\ pc = "done" => Len(ret) > 0

\* A submission answered with a JSON list has made j.get raise, and the
\* unexpected-error text was returned.
C11_Witness ==
    /\ pc = "done"
    /\ nStatus = 0
    /\ resp.kind = "response"
    /\ resp.json.t = "arr"
    /\ ret = "X Unexpected error: 'list' object has no attribute 'get'"

\* The GET requests issued so far all address the execution id.
KeyedBy(id) ==
    \A r \in sent :
        r.method = "GET" =>
            \/ r.url = r.cfg.api_base \o "/executions/" \o PyStr(id) \o "/status"
            \/ r.url = r.cfg.api_base \o "/executions/" \o PyStr(id)

\* C12: status and result requests are issued only after the submission
\* returned 2xx with a non-empty execution_id, and every status request
\* and the result request of the invocation carry exactly that id.
C12_RequestsKeyedByExecutionId ==
    /\ nStatus = 0 => (nResult = 0 /\ \A r \in sent : r.method = "POST")
    /\ nStatus > 0 => (Truthy(execution_id) /\ KeyedBy(execution_id))
    /\ (pc = "status" /\ nStatus = 1) =>
           /\ resp.kind = "response"
           /\ resp.code \in 200..299
           /\ IsDict(resp.json)
           /\ Get(resp.json, "execution_id") = execution_id

\* A job accepted with the numeric id 17 was polled twice and its result
\* requested.
C12_Witness ==
    /\ execution_id = JNum("17")
    /\ nStatus >= 2
    /\ nResult = 1
    /\ \E r \in sent : r.url = API_BASE_DEFAULT \o "/executions/17"
    /\ \E r \in sent : r.url = API_BASE_DEFAULT \o "/executions/17/status"

FieldKinds == {"absent", "skip", "good"}

\* The value of the i-th candidate key that the loop skips.
SkipValue(i) ==
    CASE i = 1 -> JStr("  ")
      [] i = 2 -> JNum("3")
      [] i = 3 -> JNull
      [] i = 4 -> JStr("")
      [] OTHER -> JArr(<<>>)

\* The value of the i-th candidate key that the loop returns, stripped.
GoodValue(i) ==
    CASE i = 1 -> JStr(" r ")
      [] i = 2 -> JStr("f ")
      [] i = 3 -> JStr("\tt\n")
      [] i = 4 -> JStr(" m")
      [] OTHER -> JStr("o")

\* The members of a final_result whose candidate keys are of the kinds f,
\* from the i-th key down: the dict lists its keys in the reverse of the
\* order the loop probes them in.
RECURSIVE FieldMembers(_, _)
FieldMembers(f, i) ==
    IF i = 0 THEN << <<"status", JStr("COMPLETED")>> >>
    ELSE (IF f[i] = "absent" THEN <<>>
          ELSE << <<CandidateKeys[i], IF f[i] = "skip" THEN SkipValue(i)
                                     ELSE GoodValue(i)>> >>)
         \o FieldMembers(f, i - 1)

\* The final_result values given to the function.
FinalResults ==
    { JObj(FieldMembers(f, Len(CandidateKeys))) :
          f \in [1..Len(CandidateKeys) -> FieldKinds] }
    \cup
    { JObj(<<>>),
      Obj1("other", JStr(Rep("z", CompactLimit - 17))),
      Obj1("other", JStr(Rep("z", CompactLimit - 16))),
      JNull, JStr(""), JStr(" \n"), JStr(" 42 "),
      JNum("7"), JNum("0"), JBool("true"), JArr(<<JStr("a")>>) }

\* The payloads given to the function: a dict with or without final_result.
ExtractPayloads ==
    { JObj(<< <<"status", JStr("completed")>>, <<"final_result", fr>> >>) :
          fr \in FinalResults }
    \cup { JObj(<< <<"status", JStr("failed")>> >>) }

ExtractInit ==
    /\ HandlerInit
    /\ TransportIdle
    /\ payload \in ExtractPayloads
    /\ extracted = NotCalled

\* text = _extract_final_text_from_payload(payload); the payload is read
\* with get only and is left as it was.
Extract ==
    /\ extracted = NotCalled
    /\ extracted' = ExtractFinalText(payload)
    /\ payload' = payload
    /\ UNCHANGED <<handlerVars, transportVars>>

\* The function is given another payload.
NextPayload(p) ==
    /\ extracted # NotCalled
    /\ payload' = p
    /\ extracted' = NotCalled
    /\ UNCHANGED <<handlerVars, transportVars>>

ExtractNext ==
    \/ Extract
    \/ \E p \in ExtractPayloads : NextPayload(p)

ExtractSpec == ExtractInit /\ [][ExtractNext]_vars

\* The keys in the order the claims name them, and those among them whose
\* value in fr is a string that is not empty once trimmed.
ClaimedOrder == <<"result", "final", "text", "message", "output">>

Matching(fr) ==
    { i \in 1..Len(ClaimedOrder) :
          /\ IsStr(Get(fr, ClaimedOrder[i]))
          /\ Strip(Get(fr, ClaimedOrder[i]).s) # "" }

\* C14: for a final_result that is a mapping, the function returns the
\* trimmed value of the first key, in the order result, final, text,
\* message, output, whose value is a string that is not empty once
\* trimmed; absent, non-string and blank values are passed over.
C14_FirstMatchingField ==
    LET fr == Get(payload, "final_result")
    IN  (extracted # NotCalled /\ IsDict(fr) /\ Matching(fr) # {}) =>
            LET first == CHOOSE i \in Matching(fr) : \A j \in Matching(fr) : i <= j
            IN  extracted = JStr(Strip(Get(fr, ClaimedOrder[first]).s))

\* result is blank and final a number, so the value of text is returned,
\* trimmed, although output holds a string too and comes first in the dict.
C14_Witness ==
    LET fr == Get(payload, "final_result")
    IN  /\ extracted = JStr("t")
        /\ IsDict(fr)
        /\ Get(fr, "result") = JStr("  ")
        /\ Get(fr, "final") = JNum("3")
        /\ Get(fr, "text") = JStr("\tt\n")
        /\ Get(fr, "output") = JStr("o")
        /\ fr.kv[1][1] = "output"

\* C15: the function returns None exactly when final_result is absent (or
\* null), a string that is empty once trimmed, or neither a string nor a
\* mapping; for a mapping without a matching field it returns the indent-2
\* JSON rendering of the mapping, cut to 2000 characters plus the ellipsis
\* marker when longer, never None.
C15_NullOrCompactRendering ==
    LET fr == Get(payload, "final_result")
        s == JsonDumps(fr, 0)
    IN  extracted # NotCalled =>
            /\ extracted = JNull <=>
                   \/ fr = JNull
                   \/ IsStr(fr) /\ Strip(fr.s) = ""
                   \/ ~IsStr(fr) /\ ~IsDict(fr)
            /\ (IsDict(fr) /\ Matching(fr) = {}) =>
                   /\ IsStr(extracted)
                   /\ Len(s) <= 2000 => extracted.s = s
                   /\ Len(s) > 2000 => extracted.s = SubSeq(s, 1, 2000) \o " ~"

\* A mapping without a matching field whose rendering is 2001 characters
\* long was returned cut, with the marker.
C15_Witness ==
    LET fr == Get(payload, "final_result")
    IN  /\ IsDict(fr)
        /\ Matching(fr) = {}
        /\ Len(JsonDumps(fr, 0)) = 2001
        /\ IsStr(extracted)
        /\ Len(extracted.s) = 2002

\* None was returned for a number, and for a blank string.
C15_WitnessNumber == extracted = JNull /\ Get(payload, "final_result") = JNum("7")

C15_WitnessBlank == extracted = JNull /\ Get(payload, "final_result") = JStr(" \n")

\* A mapping whose candidate keys all hold skipped values was rendered.
C15_WitnessSkipped ==
    LET fr == Get(payload, "final_result")
    IN  /\ IsDict(fr)
        /\ Len(fr.kv) = 6
        /\ Matching(fr) = {}
        /\ extracted = JStr(JsonDumps(fr, 0))

(***************************************************************************)
(* The transport of build_session: one request through the HTTPAdapter     *)
(* mounted with the Retry of lines 73-81, an attempt at a time.  Retry     *)
(* counts re-sends, not attempts: each failed attempt takes one from total *)
(* and one from the counter of its kind, and the request is given up when  *)
(* a counter falls below zero.                                             *)
(***************************************************************************)

\* A mutant of RetryConfig: one more re-send is allowed.
RetryConfigTotal3 ==
    [total |-> 3, connect |-> 3, read |-> 3,
     status_forcelist |-> {502, 503, 504},
     allowed_methods |-> {"GET", "POST"},
     raise_on_status |-> FALSE]

\* Retry(total=2, connect=2, read=2, status_forcelist=(502, 503, 504),
\* allowed_methods=frozenset(["GET", "POST"]), raise_on_status=False)
RetryConfig ==
    [total |-> 2, connect |-> 2, read |-> 2,
     status_forcelist |-> {502, 503, 504},
     allowed_methods |-> {"GET", "POST"},
     raise_on_status |-> FALSE]

\* Retry.RETRY_AFTER_STATUS_CODES: with respect_retry_after_header left at
\* its default, a response of one of these codes that bears a Retry-After
\* header is re-sent too.
RetryAfterStatusCodes == {413, 429, 503}

\* The counters of a request not yet sent.
NewRetry ==
    [total |-> RetryConfig.total, connect |-> RetryConfig.connect,
     read |-> RetryConfig.read]

\* Retry.increment: the counters after an attempt that ended in a
\* connection error ("connect"), a read error ("read") or a response to
\* re-send ("response").
Increment(r, kind) ==
    [total |-> r.total - 1,
     connect |-> IF kind = "connect" THEN r.connect - 1 ELSE r.connect,
     read |-> IF kind = "read" THEN r.read - 1 ELSE r.read]

\* Retry.is_exhausted
IsExhausted(r) == r.total < 0 \/ r.connect < 0 \/ r.read < 0

\* Retry.is_retry: is a response with this status code to be re-sent.
IsRetry(r, method, code, retry_after) ==
    /\ method \in RetryConfig.allowed_methods
    /\ \/ code \in RetryConfig.status_forcelist
       \/ r.total # 0 /\ retry_after /\ code \in RetryAfterStatusCodes

\* The methods the program sends: session.post and session.get.
Methods == {"GET", "POST"}

\* The status codes an attempt may be answered with, with or without a
\* Retry-After header.
AnswerCodes == {200, 404, 413, 429, 500, 502, 503, 504}

\* session.post / session.get hands a request to the adapter.
Send(method) ==
    /\ t_pc = "idle"
    /\ t_pc' = "sending"
    /\ t_method' = method
    /\ retry' = NewRetry
    /\ attempts' = 1
    /\ t_last' = NoAttempt
    /\ UNCHANGED <<handlerVars, extractVars>>

\* An attempt ends in a connection error or a read error: the request is
\* sent again unless the counters are used up, and then MaxRetryError is
\* raised.
AttemptFails(kind) ==
    /\ t_pc = "sending"
    /\ t_last' = [kind |-> kind, code |-> 0, retry_after |-> FALSE]
    /\ IF kind = "read" /\ t_method \notin RetryConfig.allowed_methods
       THEN /\ t_pc' = "raised"
            /\ UNCHANGED <<retry, attempts>>
       ELSE /\ retry' = Increment(retry, kind)
            /\ IF IsExhausted(retry')
               THEN t_pc' = "raised" /\ attempts' = attempts
               ELSE t_pc' = "sending" /\ attempts' = attempts + 1
    /\ UNCHANGED <<t_method, handlerVars, extractVars>>

\* An attempt is answered: the response is given to the caller, or the
\* request is sent again; with the counters used up the last response is
\* given to the caller, as raise_on_status is False.
AttemptAnswers(code, retry_after) ==
    /\ t_pc = "sending"
    /\ t_last' = [kind |-> "response", code |-> code, retry_after |-> retry_after]
    /\ IF IsRetry(retry, t_method, code, retry_after)
       THEN /\ retry' = Increment(retry, "response")
            /\ IF IsExhausted(retry')
               THEN /\ t_pc' = IF RetryConfig.raise_on_status THEN "raised"
                               ELSE "returned"
                    /\ attempts' = attempts
               ELSE t_pc' = "sending" /\ attempts' = attempts + 1
       ELSE /\ t_pc' = "returned"
            /\ UNCHANGED <<retry, attempts>>
    /\ UNCHANGED <<t_method, handlerVars, extractVars>>

\* The caller has the response or the exception; the request is over.
RequestOver ==
    /\ t_pc \in {"returned", "raised"}
    /\ t_pc' = "idle"
    /\ t_method' = ""
    /\ retry' = [total |-> 0, connect |-> 0, read |-> 0]
    /\ attempts' = 0
    /\ t_last' = NoAttempt
    /\ UNCHANGED <<handlerVars, extractVars>>

RetryInit == HandlerInit /\ ExtractIdle /\ TransportIdle

RetryNext ==
    \/ \E method \in Methods : Send(method)
    \/ \E kind \in {"connect", "read"} : AttemptFails(kind)
    \/ \E code \in AnswerCodes, retry_after \in BOOLEAN :
           AttemptAnswers(code, retry_after)
    \/ RequestOver

RetrySpec == RetryInit /\ [][RetryNext]_vars

\* The attempts of the request so far failed, all with connection errors;
\* all with read errors.
OnlyConnectFailures ==
    /\ t_pc # "idle"
    /\ retry.read = 2
    /\ retry.connect = retry.total

OnlyReadFailures ==
    /\ t_pc # "idle"
    /\ retry.connect = 2
    /\ retry.read = retry.total

\* The request was sent again after a response of status code in codes.
ResentAfterStatus(codes) ==
    (t_pc = "sending" /\ attempts > 1 /\ t_last.kind = "response")
        => t_last.code \in codes

\* C17 as claimed: a request whose attempts fail with connection errors is
\* attempted at most 2 times in total, and so is one whose attempts fail
\* with read errors; a response is re-sent only for 502, 503 and 504.
C17_AsClaimed ==
    /\ OnlyConnectFailures => attempts <= 2
    /\ OnlyReadFailures => attempts <= 2
    /\ ResentAfterStatus({502, 503, 504})

\* C17, amended: a request is attempted at most 3 times in total (once,
\* and at most 2 re-sends), whatever mix of connection errors, read errors
\* and re-sent responses its attempts end in; it is given up with an
\* exception only after 3 failed attempts; a response is re-sent only for
\* 502, 503 and 504 and, when it bears a Retry-After header, for 413 and
\* 429.
C17_AtMostThreeAttempts ==
    /\ attempts <= 3
    /\ t_pc = "raised" => (attempts = 3 /\ t_last.kind \in {"connect", "read"})
    /\ ResentAfterStatus({502, 503, 504, 413, 429})
    /\ (t_pc = "sending" /\ attempts > 1 /\ t_last.kind = "response"
        /\ t_last.code \in {413, 429}) => t_last.retry_after

\* A POST failed three times with connection errors and was given up.
C17_Witness ==
    /\ t_pc = "raised"
    /\ t_method = "POST"
    /\ attempts = 3
    /\ retry = [total |-> -1, connect |-> -1, read |-> 2]

\* A third attempt is under way after a read error and a 503.
C17_WitnessMixed ==
    /\ t_pc = "sending"
    /\ attempts = 3
    /\ retry = [total |-> 0, connect |-> 2, read |-> 1]
    /\ t_last.code = 503

\* handle_default_route has returned the poll-timeout text.
PollTimedOut ==
    /\ pc = "done"
    /\ Prefix(ret, Len("!! Backend timed out waiting for result"))
         = "!! Backend timed out waiting for result"

\* C18 as claimed: the time the submission request took counts toward
\* max_wait, so the loop never goes on waiting once more than max_wait has
\* passed since the submission was sent (the time 0 of the invocation).
C18_AsClaimed == pc = "sleep" => now <= max_wait

\* C18, amended: the budget is measured from the moment the submission
\* request has returned, when t0 is read and the first status request
\* issued; the loop goes on waiting while no more than max_wait has passed
\* since then and returns the poll-timeout text only when more has, and
\* the time the submission took is not counted.
C18_BudgetFromSubmissionReturn ==
    /\ (pc = "status" /\ nStatus = 1) => t0 = now
    /\ pc = "sleep" => now - t0 <= max_wait
    /\ PollTimedOut => now - t0 > max_wait

\* The submission took a second: the loop goes on waiting although more
\* than max_wait has passed since the submission was sent.
C18_Witness ==
    /\ pc = "sleep"
    /\ t0 = 1
    /\ now - t0 = max_wait
    /\ now > max_wait

(***************************************************************************)
(* Progress of one invocation: every network call returns or raises, as    *)
(* each is made with a timeout, and time.sleep ends.                       *)
(***************************************************************************)

\* The steps handle_default_route takes once it was called.
HandlerStep ==
    \/ \E o \in SubmitOutcomes, d \in Durations : SubmitReturns(o, d)
    \/ \E o \in StatusOutcomes, d \in Durations, e \in JsonErrorKinds :
           e \in JsonErrorKindsFor(o) /\ StatusReturns(o, d, e)
    \/ Sleep
    \/ \E o \in ResultOutcomes, d \in Durations, e \in JsonErrorKinds :
           e \in JsonErrorKindsFor(o) /\ ResultReturns(o, d, e)

\* Text messages are handled one after the other; no /seturl or
\* /setheaders is sent, which could run only between two invocations and
\* changes neither poll_interval nor max_wait.
LiveNext ==
    \/ \E text \in Prompts, user_id \in UserIds : HandleText(text, user_id)
    \/ HandlerStep
    \/ Reply

LiveSpec == Init /\ [][LiveNext]_vars /\ WF_vars(HandlerStep)

\* C19: every invocation of handle_default_route eventually returns, also
\* when the backend never reports a terminal status; the loop never waits
\* to issue a status request beyond those the budget allows.
C19_EventuallyReturns ==
    /\ [](pc = "sleep" => nStatus < MaxPolls)
    /\ (pc = "submit") ~> (pc = "done")

\* The invocation returned the poll-timeout text after five status
\* requests, none of which was answered with a terminal status.
C19_Witness ==
    /\ PollTimedOut
    /\ nStatus = MaxWait + 2
    /\ firstTerminalAt = 0

\* api_url is api_base, or api_base followed by "/executions".
UrlAndBasePaired ==
    \/ RUNTIME.api_url = RUNTIME.api_base
    \/ RUNTIME.api_url = RUNTIME.api_base \o "/executions"

\* C20: from the defaults on and after every /seturl, api_url is api_base
\* or api_base followed by "/executions": every step that sets one sets
\* the other to match; and a /seturl without arguments, answered with the
\* usage text, changes neither.
C20_UrlAndBaseUpdatedTogether ==
    /\ UrlAndBasePaired
    /\ [][/\ UrlAndBasePaired'
          /\ (chat' = <<UX_seturl_usage>> => RUNTIME' = RUNTIME)]_vars

\* After /seturl http://c:9/run, which does not end in "/executions", and
\* a /seturl without arguments: api_url and api_base are both that url.
C20_Witness ==
    /\ RUNTIME.api_url = "http://c:9/run"
    /\ RUNTIME.api_base = "http://c:9/run"
    /\ chat = <<UX_seturl_usage>>

\* After /seturl http://b:9/api/v1/executions the base is cut.
C20_WitnessSuffix ==
    /\ RUNTIME.api_url = "http://b:9/api/v1/executions"
    /\ RUNTIME.api_base = "http://b:9/api/v1"
    /\ chat = <<UX_seturl_ok(RUNTIME.api_url, RUNTIME.api_base)>>

====
